---- MODULE Spec2Model ----
(***************************************************************************)
(* Model of the cohort balancing pipeline of the notebook                  *)
(* build_a_cohort_of_severe_covid_19_cases.ipynb: two query results        *)
(* ('mild' and 'severe' imaging studies) are labelled, combined, binned by *)
(* age, the larger group is weighted by the inverse stratum frequencies of *)
(* the smaller group, undersampled with DataFrame.sample and concatenated  *)
(* with the smaller group.  One action per notebook cell.                  *)
(*                                                                         *)
(* Floating point numbers are modelled as exact rationals <<num, den>>;    *)
(* NaN is <<0, 0>> and inf is <<1, 0>>.  A DataFrame is the sequence of    *)
(* its rows, each row a record whose fields are the columns.               *)
(***************************************************************************)
EXTENDS Integers, Sequences, FiniteSets, TLC

\* ------------------------------------------------------------------ bounds
\* Longest 'mild' and 'severe' query result, and the number of distinct
\* values a uniform draw can take.
MaxMild == 3
MaxSevere == 2
NumLevels == 4

\* --------------------------------------------------------- query results
\* Demographic profiles the query collaborator returns.  Every demographic
\* field arrives as a one-element list.  Ages 15 and 25 fall into two
\* different bins, age 95 lies beyond the last bin edge.  The columns the
\* balancing never reads (case_ids and the other query fields) are left out.
Profiles ==
  { [sex |-> <<"Male">>,   ethnicity |-> <<"Not Hispanic or Latino">>, race |-> <<"White">>, age_at_index |-> <<15>>],
    [sex |-> <<"Female">>, ethnicity |-> <<"Not Hispanic or Latino">>, race |-> <<"White">>, age_at_index |-> <<25>>],
    [sex |-> <<"Male">>,   ethnicity |-> <<"Not Hispanic or Latino">>, race |-> <<"White">>, age_at_index |-> <<95>>] }

\* A query result of n studies: row i has submitter_id base + i.
Studies(base, n) ==
  { [i \in 1..n |->
       [submitter_id |-> base + i, sex |-> f[i].sex, ethnicity |-> f[i].ethnicity,
        race |-> f[i].race, age_at_index |-> f[i].age_at_index]] :
    f \in [1..n -> Profiles] }

\* ------------------------------------------------------------- rationals
NaN == <<0, 0>>
Inf == <<1, 0>>
Zero == <<0, 1>>

IsNaN(w) == w = NaN
IsInf(w) == w[2] = 0 /\ w[1] # 0

RECURSIVE GCD(_, _)
GCD(a, b) == IF b = 0 THEN a ELSE GCD(b, a % b)

\* n / d as a reduced fraction (n >= 0, d >= 0).
Rat(n, d) ==
  IF d = 0 THEN (IF n = 0 THEN NaN ELSE Inf)
  ELSE LET g == GCD(n, d) IN <<n \div g, d \div g>>

RatAdd(a, b) == Rat(a[1] * b[2] + b[1] * a[2], a[2] * b[2])
RatLess(a, b) == a[1] * b[2] < b[1] * a[2]
RatPos(a) == a[2] > 0 /\ a[1] > 0

\* 1 / x of numpy floats: 1/NaN is NaN, 1/0 is inf.
Inverse(x) == IF IsNaN(x) THEN NaN ELSE Rat(x[2], x[1])

\* --------------------------------------------------------------- helpers
Range(s) == { s[i] : i \in DOMAIN s }

\* ','.join(map(str, x)) of a one-element list is the element itself.
Join(x) == x[1]

\* np.arange(start, stop, step)
Arange(start, stop, step) ==
  [i \in 1..((stop - start + step - 1) \div step) |-> start + (i - 1) * step]

age_bins == Arange(10, 100, 10)

\* A missing age_bin (pd.cut found no interval).
NaNBin == <<0, 0>>

\* pd.cut(x, bins): right-closed intervals (bins[i], bins[i+1]]; a value
\* outside (bins[1], bins[last]] gets no interval.
Cut(x, bins) ==
  IF \E i \in 1..(Len(bins) - 1) : bins[i] < x /\ x <= bins[i + 1]
  THEN LET i == CHOOSE i \in 1..(Len(bins) - 1) : bins[i] < x /\ x <= bins[i + 1]
       IN <<bins[i], bins[i + 1]>>
  ELSE NaNBin

cohorts == <<"mild", "severe">>
dprops == <<"sex", "ethnicity", "race", "age_bin">>

\* The row's values of the columns dprops.
Stratum(r) == <<r.sex, r.ethnicity, r.race, r.age_bin>>
HasNaN(c) == c[4] = NaNBin

\* frame[dprops].value_counts(): count per observed combination; rows with a
\* missing value are dropped.  Counts are kept as fractions count/1.
ValueCounts(frame) ==
  LET keys == { Stratum(frame[i]) : i \in DOMAIN frame } \ { c \in { Stratum(frame[i]) : i \in DOMAIN frame } : HasNaN(c) }
  IN [c \in keys |-> Rat(Cardinality({ i \in DOMAIN frame : Stratum(frame[i]) = c }), 1)]

RECURSIVE SumOver(_, _)
SumOver(series, keys) ==
  IF keys = {} THEN Zero
  ELSE LET k == CHOOSE k \in keys : TRUE
       IN IF IsNaN(series[k]) THEN SumOver(series, keys \ {k})
          ELSE RatAdd(series[k], SumOver(series, keys \ {k}))

\* Series.sum(): missing values are skipped.
SeriesSum(series) == SumOver(series, DOMAIN series)

\* value_counts(normalize=True): counts / counts.sum()
ValueFrequencies(frame) ==
  LET counts == ValueCounts(frame)
      total == SeriesSum(counts)
  IN [c \in DOMAIN counts |-> Rat(counts[c][1] * total[2], counts[c][2] * total[1])]

\* series.reindex(index): labels the series lacks get NaN.
Reindex(series, index) ==
  [c \in index |-> IF c \in DOMAIN series THEN series[c] ELSE NaN]

\* ----------------------------------------------------------------- state
VARIABLES
  mild_studies,        \* query result of cohort 2 (mRALE < 10)
  severe_studies,      \* query result of cohort 1 (mRALE >= 10)
  df,                  \* master DataFrame
  cohort_sizes,        \* dict cohort -> number of rows
  smaller_cohort_size,
  smaller_cohort_name,
  larger_cohort_size,
  larger_cohort_name,
  sdf,                 \* smaller cohort DataFrame
  ldf,                 \* larger cohort DataFrame
  combos,              \* demographic combinations of the master DataFrame
  svc, svf, svw,       \* smaller cohort value counts / frequencies / weights
  udf,                 \* undersampled larger cohort DataFrame
  bdf,                 \* balanced DataFrame
  pc,                  \* the next cell to execute
  error,               \* the exception that stopped the notebook, if any
  seeded,              \* what a generator seeded with 41 returned, per request
  samples              \* submitter_ids selected by each execution of the sampling cell

\* State of the other notebooks: the age grouping of the clinical-data notebook,
\* the study filter, the download loop and the manifest writer.
VARIABLES
  agelist,             \* argument of age_group / the age_at_index column given to pd.cut
  grouplist,           \* what age_group(agelist) returned
  age_bin,             \* what pd.cut(agelist, bins=age_bins) returned
  binner_pc,           \* which of the two binners have run
  cases,               \* cases returned by the case query
  desired_studies,     \* dict submitter_id -> kept imaging studies
  filter_pc,           \* position around the filter cell
  object_ids,          \* the list the download loop iterates over
  iterator,            \* how many entries the for statement has handed out
  count,               \* loop counter of the download loop
  success, failure, other,
  running,             \* the subprocess.run call in flight, if any
  calls,               \* the subprocess.run calls that returned, with their results
  download_pc,         \* position in the download cell
  guids,               \* argument of write_manifest
  mani,                \* what has been written to the manifest file
  manifest_count,      \* local variable count of write_manifest
  manifest_pc,         \* position in write_manifest
  data_files,          \* records returned by a data_file query
  build_pc,            \* position around the cell that builds object_ids
  s_df,                \* s: the imaging studies with days_to_study
  m_df,                \* m: the COVID-19 tests with test_days_from_index
  temp,                \* the studies merged with the tests
  ps,                  \* the rows selected as COVID-positive studies
  temporal_pc,         \* position in the temporal cohort cells
  image_paths,         \* the DICOM files to convert, in the order of the calls
  saved,               \* the paths the converted images were saved to
  convert_pc,          \* position in the conversion calls
  covid19_positive,    \* the column df['covid19_positive']
  covid_breakdown,     \* dict of the two subject counts
  positivity,          \* the printed percentage, in tenths of a percent
  positivity_pc        \* position around the COVID-19 status cell

balancer_vars == <<mild_studies, severe_studies, df, cohort_sizes, smaller_cohort_size,
                   smaller_cohort_name, larger_cohort_size, larger_cohort_name, sdf, ldf,
                   combos, svc, svf, svw, udf, bdf, pc, error, seeded, samples>>
binner_vars == <<agelist, grouplist, age_bin, binner_pc>>
filter_vars == <<cases, desired_studies, filter_pc>>
download_vars == <<object_ids, iterator, count, success, failure, other, running, calls, download_pc>>
manifest_vars == <<guids, mani, manifest_count, manifest_pc>>

build_vars == <<data_files, build_pc>>
temporal_vars == <<s_df, m_df, temp, ps, temporal_pc>>
convert_vars == <<image_paths, saved, convert_pc>>
positivity_vars == <<covid19_positive, covid_breakdown, positivity, positivity_pc>>

vars == <<balancer_vars, binner_vars, filter_vars, download_vars, manifest_vars,
          build_vars, temporal_vars, convert_vars, positivity_vars>>

\* A notebook that is not being executed: its variables hold nothing.
BinnerIdle ==
  agelist = <<>> /\ grouplist = <<>> /\ age_bin = <<>> /\ binner_pc = "idle"
FilterIdle ==
  cases = <<>> /\ desired_studies = <<>> /\ filter_pc = "idle"
DownloadIdle ==
  /\ object_ids = <<>> /\ iterator = 0 /\ count = 0
  /\ success = <<>> /\ failure = <<>> /\ other = <<>>
  /\ running = <<>> /\ calls = <<>> /\ download_pc = "idle"
ManifestIdle ==
  guids = <<>> /\ mani = <<>> /\ manifest_count = 0 /\ manifest_pc = "idle"
BuildIdle ==
  data_files = <<>> /\ build_pc = "idle"
TemporalIdle ==
  s_df = <<>> /\ m_df = <<>> /\ temp = <<>> /\ ps = <<>> /\ temporal_pc = "idle"
ConvertIdle ==
  image_paths = <<>> /\ saved = <<>> /\ convert_pc = "idle"
PositivityIdle ==
  /\ covid19_positive = <<>> /\ covid_breakdown = <<>>
  /\ positivity = 0 /\ positivity_pc = "idle"
OthersIdle == BuildIdle /\ TemporalIdle /\ ConvertIdle /\ PositivityIdle

NoError == [cell |-> "", kind |-> ""]

Init ==
  /\ mild_studies \in UNION { Studies(0, n) : n \in 0..MaxMild }
  /\ severe_studies \in UNION { Studies(MaxMild, n) : n \in 0..MaxSevere }
  /\ df = <<>>
  /\ cohort_sizes = <<>>
  /\ smaller_cohort_size = 0
  /\ smaller_cohort_name = ""
  /\ larger_cohort_size = 0
  /\ larger_cohort_name = ""
  /\ sdf = <<>>
  /\ ldf = <<>>
  /\ combos = {}
  /\ svc = <<>>
  /\ svf = <<>>
  /\ svw = <<>>
  /\ udf = <<>>
  /\ bdf = <<>>
  /\ pc = "label"
  /\ error = NoError
  /\ seeded = <<>>
  /\ samples = <<>>
  /\ BinnerIdle /\ FilterIdle /\ DownloadIdle /\ ManifestIdle
  /\ OthersIdle

\* The balancing notebook is not being executed.
BalancerIdle ==
  /\ mild_studies = <<>> /\ severe_studies = <<>> /\ df = <<>>
  /\ cohort_sizes = <<>>
  /\ smaller_cohort_size = 0 /\ smaller_cohort_name = ""
  /\ larger_cohort_size = 0 /\ larger_cohort_name = ""
  /\ sdf = <<>> /\ ldf = <<>> /\ combos = {}
  /\ svc = <<>> /\ svf = <<>> /\ svw = <<>>
  /\ udf = <<>> /\ bdf = <<>>
  /\ pc = "idle" /\ error = NoError
  /\ seeded = <<>> /\ samples = <<>>

\* An exception ends the run of the notebook.
Raise(cell, kind) ==
  /\ pc' = "failed"
  /\ error' = [cell |-> cell, kind |-> kind]

\* ----------------------------------------------------------------- cells
\* frame['cohort'] = label
Label(frame, label) ==
  [i \in DOMAIN frame |->
     [submitter_id |-> frame[i].submitter_id, sex |-> frame[i].sex,
      ethnicity |-> frame[i].ethnicity, race |-> frame[i].race,
      age_at_index |-> frame[i].age_at_index, cohort |-> label]]

\* Cell a9f12059: label the two query results and concatenate them.
LabelAndCombine ==
  /\ pc = "label"
  /\ df' = Label(mild_studies, "mild") \o Label(severe_studies, "severe")
  /\ pc' = "convert"
  /\ UNCHANGED <<binner_vars, filter_vars, download_vars, manifest_vars,
                 build_vars, temporal_vars, convert_vars, positivity_vars>>
  /\ UNCHANGED <<mild_studies, severe_studies, cohort_sizes, smaller_cohort_size,
                 smaller_cohort_name, larger_cohort_size, larger_cohort_name, sdf, ldf,
                 combos, svc, svf, svw, udf, bdf, error, seeded, samples>>

\* The list-valued columns joined to scalars, the age as an integer, and the age_bin column.
Convert(r) ==
  [submitter_id |-> r.submitter_id, sex |-> Join(r.sex), ethnicity |-> Join(r.ethnicity),
   race |-> Join(r.race), age_at_index |-> Join(r.age_at_index), cohort |-> r.cohort,
   age_bin |-> Cut(Join(r.age_at_index), age_bins)]

\* Cell 9c6eac91: two empty query results give a frame without the
\* demographic columns, and selecting one of them raises KeyError.
ConvertAndBin ==
  /\ pc = "convert"
  /\ IF mild_studies = <<>> /\ severe_studies = <<>>
     THEN Raise("convert", "KeyError") /\ UNCHANGED df
     ELSE /\ df' = [i \in DOMAIN df |-> Convert(df[i])]
          /\ pc' = "sizes"
          /\ UNCHANGED error
  /\ UNCHANGED <<binner_vars, filter_vars, download_vars, manifest_vars,
                 build_vars, temporal_vars, convert_vars, positivity_vars>>
  /\ UNCHANGED <<mild_studies, severe_studies, cohort_sizes, smaller_cohort_size,
                 smaller_cohort_name, larger_cohort_size, larger_cohort_name, sdf, ldf,
                 combos, svc, svf, svw, udf, bdf, seeded, samples>>

\* frame.loc[frame['cohort']==name]: the rows of the cohort, in order.
InCohort(frame, name) == LET Test(r) == r.cohort = name IN SelectSeq(frame, Test)

\* Cell f7040419
CohortSizes ==
  /\ pc = "sizes"
  /\ cohort_sizes' = [c \in Range(cohorts) |-> Len(InCohort(df, c))]
  /\ pc' = "select"
  /\ UNCHANGED <<binner_vars, filter_vars, download_vars, manifest_vars,
                 build_vars, temporal_vars, convert_vars, positivity_vars>>
  /\ UNCHANGED <<mild_studies, severe_studies, df, smaller_cohort_size,
                 smaller_cohort_name, larger_cohort_size, larger_cohort_name, sdf, ldf,
                 combos, svc, svf, svw, udf, bdf, error, seeded, samples>>

MinSize(sizes) == CHOOSE v \in Range(sizes) : \A w \in Range(sizes) : v <= w
MaxSize(sizes) == CHOOSE v \in Range(sizes) : \A w \in Range(sizes) : v >= w

\* list(sizes.keys())[list(sizes.values()).index(v)]: the first key, in
\* insertion order, whose value is v.
KeyOfSize(sizes, v) ==
  cohorts[CHOOSE i \in DOMAIN cohorts :
            /\ sizes[cohorts[i]] = v
            /\ \A j \in 1..(i - 1) : sizes[cohorts[j]] # v]

\* Cell 55b7cd74
SelectCohorts ==
  /\ pc = "select"
  /\ smaller_cohort_size' = MinSize(cohort_sizes)
  /\ smaller_cohort_name' = KeyOfSize(cohort_sizes, MinSize(cohort_sizes))
  /\ sdf' = InCohort(df, KeyOfSize(cohort_sizes, MinSize(cohort_sizes)))
  /\ larger_cohort_size' = MaxSize(cohort_sizes)
  /\ larger_cohort_name' = KeyOfSize(cohort_sizes, MaxSize(cohort_sizes))
  /\ ldf' = InCohort(df, KeyOfSize(cohort_sizes, MaxSize(cohort_sizes)))
  /\ pc' = "combos"
  /\ UNCHANGED <<binner_vars, filter_vars, download_vars, manifest_vars,
                 build_vars, temporal_vars, convert_vars, positivity_vars>>
  /\ UNCHANGED <<mild_studies, severe_studies, df, cohort_sizes,
                 combos, svc, svf, svw, udf, bdf, error, seeded, samples>>

\* Cell 1b77fb61: combos = df[dprops].value_counts().index.tolist().  The
\* order of the list only decides the order in which disjoint sets of rows
\* are weighted, so the list is kept as a set.
MasterCombos ==
  /\ pc = "combos"
  /\ combos' = DOMAIN ValueCounts(df)
  /\ pc' = "frequencies"
  /\ UNCHANGED <<binner_vars, filter_vars, download_vars, manifest_vars,
                 build_vars, temporal_vars, convert_vars, positivity_vars>>
  /\ UNCHANGED <<mild_studies, severe_studies, df, cohort_sizes, smaller_cohort_size,
                 smaller_cohort_name, larger_cohort_size, larger_cohort_name, sdf, ldf,
                 svc, svf, svw, udf, bdf, error, seeded, samples>>

\* svw = 1/svf
InverseSeries(series) == [c \in DOMAIN series |-> Inverse(series[c])]

\* Cell 1ec6aa1e
SmallerFrequencies ==
  /\ pc = "frequencies"
  /\ svc' = Reindex(ValueCounts(sdf), combos)
  /\ svf' = Reindex(ValueFrequencies(sdf), combos)
  /\ svw' = InverseSeries(Reindex(ValueFrequencies(sdf), combos))
  /\ pc' = "replace_nan"
  /\ UNCHANGED <<binner_vars, filter_vars, download_vars, manifest_vars,
                 build_vars, temporal_vars, convert_vars, positivity_vars>>
  /\ UNCHANGED <<mild_studies, severe_studies, df, cohort_sizes, smaller_cohort_size,
                 smaller_cohort_name, larger_cohort_size, larger_cohort_name, sdf, ldf,
                 combos, udf, bdf, error, seeded, samples>>

\* Cell 2b737a4c: replace NaNs with 0.
ReplaceNaN ==
  /\ pc = "replace_nan"
  /\ svw' = [key \in DOMAIN svw |-> IF IsNaN(svw[key]) THEN Zero ELSE svw[key]]
  /\ pc' = "apply_weights"
  /\ UNCHANGED <<binner_vars, filter_vars, download_vars, manifest_vars,
                 build_vars, temporal_vars, convert_vars, positivity_vars>>
  /\ UNCHANGED <<mild_studies, severe_studies, df, cohort_sizes, smaller_cohort_size,
                 smaller_cohort_name, larger_cohort_size, larger_cohort_name, sdf, ldf,
                 combos, svc, svf, udf, bdf, error, seeded, samples>>

\* Elementwise ==: a missing value equals nothing.
Eq(a, b) == a # NaNBin /\ b # NaNBin /\ a = b

\* (ldf[dprops[0]] == combo[0]) & ... & (ldf[dprops[3]] == combo[3])
Matches(r, combo) ==
  /\ r.sex = combo[1]
  /\ r.ethnicity = combo[2]
  /\ r.race = combo[3]
  /\ Eq(r.age_bin, combo[4])

WithWeight(r, w) ==
  [submitter_id |-> r.submitter_id, sex |-> r.sex, ethnicity |-> r.ethnicity,
   race |-> r.race, age_at_index |-> r.age_at_index, cohort |-> r.cohort,
   age_bin |-> r.age_bin, weight |-> w]

\* The mutant of AssignWeights: the rows no combination selects are dropped
\* from the frame instead of being left with a missing weight.
AssignWeightsMatchedOnly(frame, index, weights) ==
  LET Test(r) == \E combo \in index : Matches(r, combo)
      kept == SelectSeq(frame, Test)
  IN [i \in DOMAIN kept |->
        WithWeight(kept[i], weights[CHOOSE combo \in index : Matches(kept[i], combo)])]


\* The loop of cell a7277895 over the combinations: the first assignment
\* creates the column 'weight' (NaN in the rows it does not select), every
\* assignment sets the rows of its combination.  With no combination at all
\* the frame is left without the column.
AssignWeights(frame, index, weights) ==
  IF index = {} THEN frame
  ELSE [i \in DOMAIN frame |->
          IF \E combo \in index : Matches(frame[i], combo)
          THEN WithWeight(frame[i], weights[CHOOSE combo \in index : Matches(frame[i], combo)])
          ELSE WithWeight(frame[i], NaN)]

\* Cell a7277895
ApplyWeights ==
  /\ pc = "apply_weights"
  /\ ldf' = AssignWeights(ldf, combos, svw)
  /\ pc' = "check_weights"
  /\ UNCHANGED <<binner_vars, filter_vars, download_vars, manifest_vars,
                 build_vars, temporal_vars, convert_vars, positivity_vars>>
  /\ UNCHANGED <<mild_studies, severe_studies, df, cohort_sizes, smaller_cohort_size,
                 smaller_cohort_name, larger_cohort_size, larger_cohort_name, sdf,
                 combos, svc, svf, svw, udf, bdf, error, seeded, samples>>

\* The frame has the column (read off its first row; a frame is never empty here).
HasColumn(frame, column) == frame # <<>> /\ column \in DOMAIN frame[1]

\* Cell 24965406: ldf.loc[ldf['weight'].isna()] is displayed, nothing is
\* raised for the rows it shows; a frame without the column raises KeyError.
CheckWeights ==
  /\ pc = "check_weights"
  /\ IF HasColumn(ldf, "weight")
     THEN pc' = "sample" /\ UNCHANGED error
     ELSE Raise("check_weights", "KeyError")
  /\ UNCHANGED <<binner_vars, filter_vars, download_vars, manifest_vars,
                 build_vars, temporal_vars, convert_vars, positivity_vars>>
  /\ UNCHANGED <<mild_studies, severe_studies, df, cohort_sizes, smaller_cohort_size,
                 smaller_cohort_name, larger_cohort_size, larger_cohort_name, sdf, ldf,
                 combos, svc, svf, svw, udf, bdf, seeded, samples>>

\* -------------------------------------------------------------- sampling
\* frame[column]
Column(frame, column) == [i \in DOMAIN frame |-> frame[i][column]]

\* pandas preprocess_weights: missing weights are treated as zero.
PreprocessWeights(weights) ==
  [i \in DOMAIN weights |-> IF IsNaN(weights[i]) THEN Zero ELSE weights[i]]

RECURSIVE CumSum(_, _)
CumSum(p, j) == IF j = 0 THEN Zero ELSE RatAdd(CumSum(p, j - 1), p[j])

\* np.cumsum(p) divided by its last entry.
Cdf(p) ==
  LET total == CumSum(p, Len(p))
  IN [j \in DOMAIN p |->
        LET c == CumSum(p, j) IN Rat(c[1] * total[2], c[2] * total[1])]

\* The mutant of SearchSorted: side='left'.
SearchSortedLeft(cdf, x) ==
  Cardinality({ j \in DOMAIN cdf : RatLess(cdf[j], x) }) + 1

\* cdf.searchsorted(x, side='right'): the (1-based) position of the first
\* entry greater than x.
SearchSorted(cdf, x) ==
  Cardinality({ j \in DOMAIN cdf : ~RatLess(x, cdf[j]) }) + 1

\* np.unique(new, return_index=True) and take: the distinct values in the
\* order of their first occurrence.
RECURSIVE UniqueFirst(_)
UniqueFirst(s) ==
  IF s = <<>> THEN <<>>
  ELSE LET front == UniqueFirst(SubSeq(s, 1, Len(s) - 1))
       IN IF s[Len(s)] \in Range(front) THEN front ELSE Append(front, s[Len(s)])

\* random_sample(): a uniform value of [0, 1), here a multiple of 1/NumLevels.
Uniform == { Rat(l, NumLevels) : l \in 0..(NumLevels - 1) }

\* The loop of RandomState.choice(replace=False, p=p): every pass draws as
\* many values as are still missing, zeroes the probabilities of what was
\* found, looks each draw up in the cumulated probabilities and keeps the
\* new distinct positions.  The set of the results the loop can end with:
\* the positions found, in the order found.
RECURSIVE ChoiceLoop(_, _, _)
ChoiceLoop(p, size, found) ==
  IF Len(found) >= size THEN { found }
  ELSE LET q == [i \in DOMAIN p |-> IF i \in Range(found) THEN Zero ELSE p[i]]
           hits == UNION { { SearchSorted(cdf, x) : x \in Uniform } : cdf \in { Cdf(q) } }
           news == { UniqueFirst(new) : new \in [1..(size - Len(found)) -> hits] }
       IN UNION { ChoiceLoop(p, size, found \o new) : new \in news }

CountPositive(p) == Cardinality({ i \in DOMAIN p : RatPos(p[i]) })

\* The checks of RandomState.choice(pop_size, size, replace=False, p) before
\* its loop: ValueError for a sample larger than the population or than the
\* number of non-zero probabilities.
Choice(pop_size, size, p) ==
  IF (pop_size <= 0 /\ size # 0) \/ size > pop_size \/ CountPositive(p) < size
  THEN [raised |-> TRUE, size |-> size, p |-> p]
  ELSE [raised |-> FALSE, size |-> size, p |-> p]

\* The mutant of DataFrameSample: a request for more rows than have a
\* positive weight is cut down to the rows there are.
DataFrameSampleClipped(frame, n, weights) ==
  LET w == PreprocessWeights(weights)
      m == IF n > CountPositive(w) THEN CountPositive(w) ELSE n
  IN IF (\E i \in DOMAIN weights : IsInf(weights[i])) \/ ~RatPos(CumSum(w, Len(w)))
     THEN [raised |-> TRUE, size |-> m, p |-> w]
     ELSE Choice(Len(frame), m, w)

\* The mutant of DataFrameSample: weights that sum to zero are accepted, so
\* that a request for no rows at all is answered with an empty sample.
DataFrameSampleZeroSum(frame, n, weights) ==
  LET w == PreprocessWeights(weights)
  IN IF \E i \in DOMAIN weights : IsInf(weights[i])
     THEN [raised |-> TRUE, size |-> n, p |-> w]
     ELSE Choice(Len(frame), n, w)

\* frame.sample(n=n, weights=weights, random_state=...) up to the loop of
\* choice: ValueError for an infinite weight and for weights that sum to
\* zero, then the checks of choice over the row positions.
DataFrameSample(frame, n, weights) ==
  LET w == PreprocessWeights(weights)
  IN IF (\E i \in DOMAIN weights : IsInf(weights[i])) \/ ~RatPos(CumSum(w, Len(w)))
     THEN [raised |-> TRUE, size |-> n, p |-> w]
     ELSE Choice(Len(frame), n, w)

\* The mutant of RandomState: the process-wide generator, whose state goes
\* on from call to call, so that a request can be answered differently.
GlobalRandomState(memo, request, outcomes) == outcomes

\* random_state=np.random.RandomState(41): every execution builds a new
\* generator from the same seed, so a request that was made before is
\* answered as before; a first request gets one of the possible outcomes.
RandomState(memo, request, outcomes) ==
  IF request \in DOMAIN memo THEN { memo[request] } ELSE outcomes

Remember(memo, request, found) ==
  [k \in DOMAIN memo \cup {request} |-> IF k = request THEN found ELSE memo[k]]

\* frame.iloc[positions], the index reset.
Take(frame, positions) == [j \in DOMAIN positions |-> frame[positions[j]]]

\* Cell cfbf5f4c.  The cell can be executed a second time on the same ldf.
Sample ==
  /\ pc \in {"sample", "assemble"}
  /\ Len(samples) < 2
  /\ \E request \in { DataFrameSample(ldf, smaller_cohort_size, Column(ldf, "weight")) } :
       IF request.raised
       THEN /\ Raise("sample", "ValueError")
            /\ UNCHANGED <<udf, seeded, samples>>
       ELSE \E found \in RandomState(seeded, request, ChoiceLoop(request.p, request.size, <<>>)) :
              /\ seeded' = Remember(seeded, request, found)
              /\ udf' = Take(ldf, found)
              /\ samples' = Append(samples, Column(Take(ldf, found), "submitter_id"))
              /\ pc' = "assemble"
              /\ UNCHANGED error
  /\ UNCHANGED <<binner_vars, filter_vars, download_vars, manifest_vars,
                 build_vars, temporal_vars, convert_vars, positivity_vars>>
  /\ UNCHANGED <<mild_studies, severe_studies, df, cohort_sizes, smaller_cohort_size,
                 smaller_cohort_name, larger_cohort_size, larger_cohort_name, sdf, ldf,
                 combos, svc, svf, svw, bdf>>

\* frame.drop(columns=["weight"])
DropWeight(frame) ==
  [i \in DOMAIN frame |->
     [submitter_id |-> frame[i].submitter_id, sex |-> frame[i].sex,
      ethnicity |-> frame[i].ethnicity, race |-> frame[i].race,
      age_at_index |-> frame[i].age_at_index, cohort |-> frame[i].cohort,
      age_bin |-> frame[i].age_bin]]

\* The mutant of Balanced: the weight column is kept.
BalancedWithWeight(undersampled, smaller) == undersampled \o smaller

\* pd.concat([udf.drop(columns=["weight"]), sdf]).reset_index(drop=True)
Balanced(undersampled, smaller) == DropWeight(undersampled) \o smaller

\* Cell 7093ca7c
Assemble ==
  /\ pc = "assemble"
  /\ bdf' = Balanced(udf, sdf)
  /\ pc' = "done"
  /\ UNCHANGED <<binner_vars, filter_vars, download_vars, manifest_vars,
                 build_vars, temporal_vars, convert_vars, positivity_vars>>
  /\ UNCHANGED <<mild_studies, severe_studies, df, cohort_sizes, smaller_cohort_size,
                 smaller_cohort_name, larger_cohort_size, larger_cohort_name, sdf, ldf,
                 combos, svc, svf, svw, udf, error, seeded, samples>>

Next ==
  \/ LabelAndCombine
  \/ ConvertAndBin
  \/ CohortSizes
  \/ SelectCohorts
  \/ MasterCombos
  \/ SmallerFrequencies
  \/ ReplaceNaN
  \/ ApplyWeights
  \/ CheckWeights
  \/ Sample
  \/ Assemble

Spec == Init /\ [][Next]_vars

\* ------------------------------------------------------ the age binners
MaxAge == 100

\* The ages the binners are given: any list of at most two integer ages.
Ages == 0..MaxAge
AgeLists ==
  {<<>>} \cup { <<a>> : a \in Ages } \cup { <<a, b>> : a \in Ages, b \in Ages }

groups ==
  <<"-20 yr", "21-30 yr", "31-40 yr", "41-50 yr", "51-60 yr", "61-70 yr",
    "71-80 yr", "81-90 yr", "90+ yr">>

\* The mutant of GroupOf: the comparisons are strict.
GroupOfStrict(i) ==
  IF i < 20 THEN groups[1]
  ELSE IF i < 30 THEN groups[2]
  ELSE IF i < 40 THEN groups[3]
  ELSE IF i < 50 THEN groups[4]
  ELSE IF i < 60 THEN groups[5]
  ELSE IF i < 70 THEN groups[6]
  ELSE IF i < 80 THEN groups[7]
  ELSE IF i < 90 THEN groups[8]
  ELSE groups[9]

\* One pass of the loop of age_group: the chain of comparisons i <= 20,
\* i <= 30, ..., i <= 90, else.
GroupOf(i) ==
  IF i <= 20 THEN groups[1]
  ELSE IF i <= 30 THEN groups[2]
  ELSE IF i <= 40 THEN groups[3]
  ELSE IF i <= 50 THEN groups[4]
  ELSE IF i <= 60 THEN groups[5]
  ELSE IF i <= 70 THEN groups[6]
  ELSE IF i <= 80 THEN groups[7]
  ELSE IF i <= 90 THEN groups[8]
  ELSE groups[9]

\* age_group(agelist): one label per age, in order.
age_group(ages) == [k \in DOMAIN ages |-> GroupOf(ages[k])]

\* pd.cut(column, bins=age_bins), element by element.
CutColumn(column, bins) == [k \in DOMAIN column |-> Cut(column[k], bins)]

InitBinner ==
  /\ agelist \in AgeLists
  /\ grouplist = <<>>
  /\ age_bin = <<>>
  /\ binner_pc = "input"
  /\ BalancerIdle /\ FilterIdle /\ DownloadIdle /\ ManifestIdle
  /\ OthersIdle

\* df['age_group'] = age_group(df['age_at_index']); min(agelist) raises
\* ValueError for an empty list.
AgeGroupCell ==
  /\ binner_pc \in {"input", "cut"}
  /\ IF agelist = <<>>
     THEN binner_pc' = "failed" /\ UNCHANGED grouplist
     ELSE /\ grouplist' = age_group(agelist)
          /\ binner_pc' = IF binner_pc = "input" THEN "age_group" ELSE "done"
  /\ UNCHANGED <<agelist, age_bin>>
  /\ UNCHANGED <<balancer_vars, filter_vars, download_vars, manifest_vars,
                 build_vars, temporal_vars, convert_vars, positivity_vars>>

\* df['age_bin'] = pd.cut(df['age_at_index'], bins=age_bins)
CutCell ==
  /\ binner_pc \in {"input", "age_group"}
  /\ age_bin' = CutColumn(agelist, age_bins)
  /\ binner_pc' = IF binner_pc = "input" THEN "cut" ELSE "done"
  /\ UNCHANGED <<agelist, grouplist>>
  /\ UNCHANGED <<balancer_vars, filter_vars, download_vars, manifest_vars,
                 build_vars, temporal_vars, convert_vars, positivity_vars>>

NextBinner ==
  \/ AgeGroupCell
  \/ CutCell

SpecBinner == InitBinner /\ [][NextBinner]_vars


\* ---------------------------------------------------- the download loop
MaxObjects == 2

ObjectIds == {"guid-1", "guid-2"}

\* Lists of at most n entries over a set.
ListsUpTo(S, n) == UNION { [1..k -> S] : k \in 0..n }

\* The words the loop looks for.  An output is modelled by the set of these
\* words it contains: str(bytes) keeps the letters of the output, so
\* "word in str(output)" is the membership of the word.
Words == {"failed", "successfully"}
Contains(word, output) == word \in output

\* What subprocess.run(cmd, shell=True, capture_output=True) can return: the
\* CompletedProcess of any command, with its output, its error output and
\* its exit code.
CompletedProcesses ==
  [stdout : SUBSET Words, stderr : SUBSET {"failed"}, returncode : {0, 1}]

\* The mutant of Classify: a non-zero exit code counts as a failure.
ClassifyByReturnCode(stout) ==
  IF stout.returncode # 0 \/ Contains("failed", stout.stdout) THEN "failure"
  ELSE IF Contains("successfully", stout.stdout) THEN "success"
  ELSE "other"

\* The mutant of Classify: an output with neither word is not recorded.
ClassifyDroppingOther(stout) ==
  IF Contains("failed", stout.stdout) THEN "failure"
  ELSE IF Contains("successfully", stout.stdout) THEN "success"
  ELSE "dropped"


\* The if / elif / else that ends the loop body: the list the object_id is
\* appended to.
Classify(stout) ==
  IF Contains("failed", stout.stdout) THEN "failure"
  ELSE IF Contains("successfully", stout.stdout) THEN "success"
  ELSE "other"

\* The mutant of ListIteratorNext: the list is walked from its end.
ListIteratorReversed(list, position) ==
  IF position < Len(list)
  THEN [stop |-> FALSE, value |-> list[Len(list) - position], position |-> position + 1]
  ELSE [stop |-> TRUE, value |-> "", position |-> position]

\* "for object_id in object_ids": the next entry of the list, or the end of
\* the loop.
ListIteratorNext(list, position) ==
  IF position < Len(list)
  THEN [stop |-> FALSE, value |-> list[position + 1], position |-> position + 1]
  ELSE [stop |-> TRUE, value |-> "", position |-> position]

\* The mutant of CallReturns: a timeout ends the wait for a call that hangs.
CallTimesOut(call) == TRUE

\* subprocess.run is given no timeout: it returns when the command ends.
CallReturns(call) == call.returns

InitDownload ==
  /\ object_ids \in ListsUpTo(ObjectIds, MaxObjects)
  /\ iterator = 0
  /\ count = 0
  /\ success = <<>> /\ failure = <<>> /\ other = <<>>
  /\ running = <<>>
  /\ calls = <<>>
  /\ download_pc = "cell"
  /\ BalancerIdle /\ BinnerIdle /\ FilterIdle /\ ManifestIdle
  /\ OthersIdle

\* success,failure,other=[],[],[] and count,total = 0,len(object_ids)
BeginDownloads ==
  /\ download_pc = "cell"
  /\ success' = <<>> /\ failure' = <<>> /\ other' = <<>>
  /\ count' = 0
  /\ download_pc' = "for"
  /\ UNCHANGED <<object_ids, iterator, running, calls>>
  /\ UNCHANGED <<balancer_vars, binner_vars, filter_vars, manifest_vars,
                 build_vars, temporal_vars, convert_vars, positivity_vars>>

\* The for statement hands out the next entry; count += 1; the command is
\* built and subprocess.run is called.  The command ends or it never does.
RunCommand ==
  /\ download_pc = "for"
  /\ \E it \in { ListIteratorNext(object_ids, iterator) } :
       /\ ~it.stop
       /\ iterator' = it.position
       /\ count' = count + 1
       /\ \E returns \in BOOLEAN :
            running' = << [object_id |-> it.value, returns |-> returns] >>
  /\ download_pc' = "run"
  /\ UNCHANGED <<object_ids, success, failure, other, calls>>
  /\ UNCHANGED <<balancer_vars, binner_vars, filter_vars, manifest_vars,
                 build_vars, temporal_vars, convert_vars, positivity_vars>>

\* subprocess.run returns; the rest of the loop body appends the object_id
\* to one of the three lists.
CommandReturns ==
  /\ download_pc = "run"
  /\ CallReturns(running[1])
  /\ \E stout \in CompletedProcesses :
       /\ success' = IF Classify(stout) = "success"
                     THEN Append(success, running[1].object_id) ELSE success
       /\ failure' = IF Classify(stout) = "failure"
                     THEN Append(failure, running[1].object_id) ELSE failure
       /\ other' = IF Classify(stout) = "other"
                   THEN Append(other, running[1].object_id) ELSE other
       /\ calls' = Append(calls, [object_id |-> running[1].object_id, stout |-> stout])
  /\ running' = <<>>
  /\ download_pc' = "for"
  /\ UNCHANGED <<object_ids, iterator, count>>
  /\ UNCHANGED <<balancer_vars, binner_vars, filter_vars, manifest_vars,
                 build_vars, temporal_vars, convert_vars, positivity_vars>>

\* The for statement finds the list exhausted.
EndDownloads ==
  /\ download_pc = "for"
  /\ ListIteratorNext(object_ids, iterator).stop
  /\ download_pc' = "done"
  /\ UNCHANGED <<object_ids, iterator, count, success, failure, other, running, calls>>
  /\ UNCHANGED <<balancer_vars, binner_vars, filter_vars, manifest_vars,
                 build_vars, temporal_vars, convert_vars, positivity_vars>>

NextDownload ==
  \/ BeginDownloads
  \/ RunCommand
  \/ CommandReturns
  \/ EndDownloads

SpecDownload == InitDownload /\ [][NextDownload]_vars

\* The interpreter goes on executing the cell, and a command that ends is
\* seen to end.
SpecDownloadFair == SpecDownload /\ WF_vars(NextDownload)


\* ------------------------------------------------------- write_manifest
MaxGuids == 4

\* The text of the file is modelled by its JSON tokens: "[\n  {\n" is the
\* tokens [ and {, the line '    "object_id": "<guid>"\n' is one member
\* token, "  }]" is } and ], and "  },\n  {\n" is } , and {.
Member(guid) == [object_id |-> guid]

InitManifest ==
  /\ guids \in ListsUpTo(ObjectIds, MaxGuids)
  /\ mani = <<>>
  /\ manifest_count = 0
  /\ manifest_pc = "call"
  /\ BalancerIdle /\ BinnerIdle /\ FilterIdle /\ DownloadIdle
  /\ OthersIdle

\* with open(filename, "w") as mani: mani.write("[\n  {\n"); count = 0
OpenManifest ==
  /\ manifest_pc = "call"
  /\ mani' = <<"[", "{">>
  /\ manifest_count' = 0
  /\ manifest_pc' = "for"
  /\ UNCHANGED guids
  /\ UNCHANGED <<balancer_vars, binner_vars, filter_vars, download_vars,
                 build_vars, temporal_vars, convert_vars, positivity_vars>>

\* One pass of "for guid in guids": count counts the passes, so the entry
\* handed out is the one after the count entries already written.
WriteGuid ==
  /\ manifest_pc = "for"
  /\ \E it \in { ListIteratorNext(guids, manifest_count) } :
       /\ ~it.stop
       /\ manifest_count' = manifest_count + 1
       /\ mani' = mani \o << Member(it.value) >> \o
                  (IF manifest_count + 1 = Len(guids)
                   THEN <<"}", "]">>
                   ELSE <<"}", ",", "{">>)
  /\ UNCHANGED <<guids, manifest_pc>>
  /\ UNCHANGED <<balancer_vars, binner_vars, filter_vars, download_vars,
                 build_vars, temporal_vars, convert_vars, positivity_vars>>

\* The loop is over: the file is closed and filename is returned.
CloseManifest ==
  /\ manifest_pc = "for"
  /\ ListIteratorNext(guids, manifest_count).stop
  /\ manifest_pc' = "returned"
  /\ UNCHANGED <<guids, mani, manifest_count>>
  /\ UNCHANGED <<balancer_vars, binner_vars, filter_vars, download_vars,
                 build_vars, temporal_vars, convert_vars, positivity_vars>>

NextManifest ==
  \/ OpenManifest
  \/ WriteGuid
  \/ CloseManifest

SpecManifest == InitManifest /\ [][NextManifest]_vars


\* ---------------------------------------------------- the study filter
MaxStudies == 2

modality_1 == <<"DX", "CR">>
modality_2 == <<"CT">>

\* The imaging studies a returned case can hold.  A study is a dict of the
\* fields that have a value: study_modality is the list of the modalities of
\* the study, loinc_system the body part examined (a text, modelled by the
\* list of its words); either field can be missing.
StudyKinds ==
  { [study_modality |-> <<"CT">>, loinc_system |-> <<"Chest">>],
    [study_modality |-> <<"MR">>, loinc_system |-> <<"Chest">>],
    [study_modality |-> <<"CR">>, loinc_system |-> <<"Head">>],
    [study_modality |-> <<"DX">>],
    [study_modality |-> <<"SR", "CT">>, loinc_system |-> <<"Chest">>],
    [loinc_system |-> <<"Chest">>] }

\* The cases the query can return: none, one or two, sorted by submitter_id.
Case(id, studies) == [submitter_id |-> id, imaging_studies |-> studies]
CaseLists ==
  LET S == ListsUpTo(StudyKinds, MaxStudies)
  IN {<<>>} \cup { << Case("case-1", s) >> : s \in S }
            \cup { << Case("case-1", s), Case("case-2", t) >> : s \in S, t \in S }

\* "x in list"
InList(x, list) == \E k \in DOMAIN list : list[k] = x

\* "'Chest' in text": the word occurs in the text.
InString(word, text) == \E k \in DOMAIN text : text[k] = word

\* The condition of the inner comprehension, for a study that has the key
\* study_modality.
Keeps(j) ==
  /\ InList(j.study_modality[1], modality_1 \o modality_2)
  /\ "loinc_system" \in DOMAIN j
  /\ InString("Chest", j.loinc_system)

\* j['study_modality'] raises KeyError for a study without the key: the
\* condition reads it first, for every study of every case.
RaisesKeyError(list) ==
  \E c \in DOMAIN list : \E s \in DOMAIN list[c].imaging_studies :
     "study_modality" \notin DOMAIN list[c].imaging_studies[s]

\* {i['submitter_id']: [j for j in i['imaging_studies'] if ...] for i in cases}
DesiredStudies(list) ==
  [id \in { list[c].submitter_id : c \in DOMAIN list } |->
     LET i == list[CHOOSE c \in DOMAIN list :
                     /\ list[c].submitter_id = id
                     /\ \A d \in DOMAIN list : list[d].submitter_id = id => d <= c]
     IN SelectSeq(i.imaging_studies, Keeps)]

InitFilter ==
  /\ cases \in CaseLists
  /\ desired_studies = <<>>
  /\ filter_pc = "cell"
  /\ BalancerIdle /\ BinnerIdle /\ DownloadIdle /\ ManifestIdle
  /\ OthersIdle

\* Cell ffa5c794: the dict comprehension, then list(desired_studies.items())[0],
\* which raises IndexError for an empty dict.
FilterStudies ==
  /\ filter_pc = "cell"
  /\ IF RaisesKeyError(cases)
     THEN filter_pc' = "failed" /\ UNCHANGED desired_studies
     ELSE /\ desired_studies' = DesiredStudies(cases)
          /\ filter_pc' = IF cases = <<>> THEN "failed" ELSE "done"
  /\ UNCHANGED cases
  /\ UNCHANGED <<balancer_vars, binner_vars, download_vars, manifest_vars,
                 build_vars, temporal_vars, convert_vars, positivity_vars>>

NextFilter == FilterStudies

SpecFilter == InitFilter /\ [][NextFilter]_vars


\* ------------------------------------------------- building object_ids
MaxFiles == 3

\* The records a data_file query can return: a record holds the fields that
\* have a value, so the field object_id can be missing.
DataFileKinds ==
  { [submitter_id |-> "file", object_id |-> id] : id \in ObjectIds }
    \cup { [submitter_id |-> "file"] }

\* [i['object_id'] for i in records if 'object_id' in i]
GuardedIds(records) ==
  LET Test(i) == "object_id" \in DOMAIN i
      kept == SelectSeq(records, Test)
  IN [k \in DOMAIN kept |-> kept[k].object_id]

InitBuild ==
  /\ data_files \in ListsUpTo(DataFileKinds, MaxFiles)
  /\ build_pc = "query"
  /\ BalancerIdle /\ BinnerIdle /\ FilterIdle /\ DownloadIdle /\ ManifestIdle
  /\ TemporalIdle /\ ConvertIdle /\ PositivityIdle

\* part_003, cell 4acbeaf2: the list is built when the query returned
\* records, every record tested for the field.
BuildGuarded ==
  /\ build_pc = "query"
  /\ IF Len(data_files) > 0
     THEN object_ids' = GuardedIds(data_files) /\ build_pc' = "built"
     ELSE UNCHANGED object_ids /\ build_pc' = "no data"
  /\ UNCHANGED <<data_files, iterator, count, success, failure, other, running, calls,
                 download_pc>>
  /\ UNCHANGED <<balancer_vars, binner_vars, filter_vars, manifest_vars,
                 temporal_vars, convert_vars, positivity_vars>>

\* Access_Files_for_Specific_Case_IDs: object_ids = [] and a loop that
\* appends the object_id of the records that have one; the cell then reads
\* object_ids[1], which raises IndexError for a list of fewer than two ids.
BuildInLoop ==
  /\ build_pc = "query"
  /\ object_ids' = GuardedIds(data_files)
  /\ build_pc' = IF Len(GuardedIds(data_files)) < 2 THEN "IndexError" ELSE "built"
  /\ UNCHANGED <<data_files, iterator, count, success, failure, other, running, calls,
                 download_pc>>
  /\ UNCHANGED <<balancer_vars, binner_vars, filter_vars, manifest_vars,
                 temporal_vars, convert_vars, positivity_vars>>

\* Chest_CT_Images_for_Cohort, CT-only query: the list is built when the
\* first record has the field, and then i['object_id'] is read from every
\* record: KeyError for a later record without the field.
BuildFirstChecked ==
  /\ build_pc = "query"
  /\ IF Len(data_files) > 0 /\ "object_id" \in DOMAIN data_files[1]
     THEN IF \E k \in DOMAIN data_files : "object_id" \notin DOMAIN data_files[k]
          THEN UNCHANGED object_ids /\ build_pc' = "KeyError"
          ELSE /\ object_ids' = [k \in DOMAIN data_files |-> data_files[k].object_id]
               /\ build_pc' = "built"
     ELSE UNCHANGED object_ids /\ build_pc' = "no data"
  /\ UNCHANGED <<data_files, iterator, count, success, failure, other, running, calls,
                 download_pc>>
  /\ UNCHANGED <<balancer_vars, binner_vars, filter_vars, manifest_vars,
                 temporal_vars, convert_vars, positivity_vars>>

NextBuild ==
  \/ BuildGuarded
  \/ BuildInLoop
  \/ BuildFirstChecked

SpecBuild == InitBuild /\ [][NextBuild]_vars


\* ------------------------------------------------- the temporal cohort
MaxDay == 9

CaseIds == {"case-1", "case-2"}

\* s: at most two imaging studies, each of a case and on a day counted
\* from the index event of the case; study_uid is unique.
StudyTables ==
  UNION { { [k \in 1..n |->
              [study_uid |-> k, days_to_study |-> f[k][1], case_ids |-> f[k][2]]] :
            f \in [1..n -> (0..MaxDay) \X CaseIds] } : n \in {0, 1, 2} }

\* m: at most two COVID-19 tests, each of a case, on day 1 or day 4, with a
\* result; submitter_id is unique.
TestTables ==
  UNION { { [k \in 1..n |->
              [submitter_id |-> k, test_result_text |-> f[k][1],
               case_ids |-> f[k][2], test_days_from_index |-> f[k][3]]] :
            f \in [1..n -> {"Positive", "Negative"} \X CaseIds \X {1, 4}] } :
          n \in {0, 1, 2} }

\* One row of pd.merge: the columns of the left row and of the right row.
MergedRow(l, r) ==
  [study_uid |-> l.study_uid, days_to_study |-> l.days_to_study,
   case_ids |-> l.case_ids, submitter_id |-> r.submitter_id,
   test_result_text |-> r.test_result_text,
   test_days_from_index |-> r.test_days_from_index]

\* pd.merge(left, right, on='case_ids'): the inner join, one row for each
\* left row and each right row with the same key, in the order of the left
\* rows and, for one left row, of the right rows.
RECURSIVE Merge(_, _)
Merge(left, right) ==
  IF left = <<>> THEN <<>>
  ELSE LET Test(r) == r.case_ids = Head(left).case_ids
           matches == SelectSeq(right, Test)
       IN [k \in DOMAIN matches |-> MergedRow(Head(left), matches[k])]
            \o Merge(Tail(left), right)

\* The mutant of DaysFromStudyToTest: the difference is taken the other way.
DaysFromTestToStudy(row) == row.days_to_study - row.test_days_from_index

\* temp['test_days_from_index'] - temp['days_to_study'], for one row.
DaysFromStudyToTest(row) == row.test_days_from_index - row.days_to_study

WithDays(row) ==
  [study_uid |-> row.study_uid, days_to_study |-> row.days_to_study,
   case_ids |-> row.case_ids, submitter_id |-> row.submitter_id,
   test_result_text |-> row.test_result_text,
   test_days_from_index |-> row.test_days_from_index,
   days_from_study_to_test |-> DaysFromStudyToTest(row)]

\* The condition of temp.loc[...] for one row.
IsPositiveStudy(row) ==
  /\ row.days_from_study_to_test < 0
  /\ row.days_from_study_to_test > -7
  /\ row.test_result_text = "Positive"

InitTemporal ==
  /\ s_df \in StudyTables
  /\ m_df \in TestTables
  /\ temp = <<>>
  /\ ps = <<>>
  /\ temporal_pc = "merge"
  /\ BalancerIdle /\ BinnerIdle /\ FilterIdle /\ DownloadIdle /\ ManifestIdle
  /\ BuildIdle /\ ConvertIdle /\ PositivityIdle

\* temp = pd.merge(s[[...]], m[[...]], on='case_ids')
MergeCell ==
  /\ temporal_pc = "merge"
  /\ temp' = Merge(s_df, m_df)
  /\ temporal_pc' = "days"
  /\ UNCHANGED <<s_df, m_df, ps>>
  /\ UNCHANGED <<balancer_vars, binner_vars, filter_vars, download_vars, manifest_vars,
                 build_vars, convert_vars, positivity_vars>>

\* temp['days_from_study_to_test'] = temp['test_days_from_index'] - temp['days_to_study']
DaysCell ==
  /\ temporal_pc = "days"
  /\ temp' = [k \in DOMAIN temp |-> WithDays(temp[k])]
  /\ temporal_pc' = "select"
  /\ UNCHANGED <<s_df, m_df, ps>>
  /\ UNCHANGED <<balancer_vars, binner_vars, filter_vars, download_vars, manifest_vars,
                 build_vars, convert_vars, positivity_vars>>

\* ps = temp.loc[(... < 0) & (... > -7) & (temp['test_result_text']=='Positive')]
PositiveCell ==
  /\ temporal_pc = "select"
  /\ ps' = SelectSeq(temp, IsPositiveStudy)
  /\ temporal_pc' = "done"
  /\ UNCHANGED <<s_df, m_df, temp>>
  /\ UNCHANGED <<balancer_vars, binner_vars, filter_vars, download_vars, manifest_vars,
                 build_vars, convert_vars, positivity_vars>>

NextTemporal ==
  \/ MergeCell
  \/ DaysCell
  \/ PositiveCell

SpecTemporal == InitTemporal /\ [][NextTemporal]_vars


\* ------------------------------------------------ the image conversion
MaxImages == 2

\* Paths are sequences of characters; they are relative to the working
\* directory of the notebook, as the image_path values of the notebook are.
Folders == { <<>>, <<".">>, <<"A", "1">>, <<"A", "1", "/", "C", "T">>, <<"A", "2">> }

FileNames == { <<"1", ".", "d", "c", "m">>, <<"2", ".", "d", "c", "m">>,
               <<"1", ".", "d", "i", "c", "o", "m">> }

JoinPath(folder, name) == IF folder = <<>> THEN name ELSE folder \o <<"/">> \o name

ImagePaths == { JoinPath(f, n) : f \in Folders, n \in FileNames }

Max(S) == CHOOSE x \in S : \A y \in S : y <= x

\* The position of the last '/' of a path, 0 when it has none.
LastSlash(path) == Max({0} \cup { k \in DOMAIN path : path[k] = "/" })

\* image_path.rsplit('/', 1): the parts before and after the last '/', or
\* the whole path alone when it has no '/'.
RSplit(path) ==
  IF LastSlash(path) = 0 THEN << path >>
  ELSE << SubSeq(path, 1, LastSlash(path) - 1),
          SubSeq(path, LastSlash(path) + 1, Len(path)) >>

\* name[:-3]
DropLastThree(name) == SubSeq(name, 1, Len(name) - 3)

png == <<"p", "n", "g">>
jpg == <<"j", "p", "g">>

\* image_path.rsplit('/', 1)[1][:-3] + 'png' (or 'jpg'): the path that
\* final_image.save is given.
SavePath(image_path, extension) == DropLastThree(RSplit(image_path)[2]) \o extension

\* image_path.rsplit('/', 1)[1] raises IndexError when the path has no '/'.
RaisesIndexError(image_path) == Len(RSplit(image_path)) < 2

\* final_image.save(path): the file at path is created or replaced; saved
\* maps every path written so far to the DICOM file its image comes from.
Save(path, image_path) ==
  [p \in DOMAIN saved \cup {path} |-> IF p = path THEN image_path ELSE saved[p]]

InitConvert ==
  /\ image_paths \in [1..MaxImages -> ImagePaths]
  /\ \A i, j \in 1..MaxImages : i # j => image_paths[i] # image_paths[j]
  /\ saved = <<>>
  /\ convert_pc = "ready"
  /\ BalancerIdle /\ BinnerIdle /\ FilterIdle /\ DownloadIdle /\ ManifestIdle
  /\ BuildIdle /\ TemporalIdle /\ PositivityIdle

ConvertImage(image_path, extension) ==
  /\ convert_pc = "ready"
  /\ IF RaisesIndexError(image_path)
       THEN /\ convert_pc' = "IndexError"
            /\ UNCHANGED saved
       ELSE /\ saved' = Save(SavePath(image_path, extension), image_path)
            /\ UNCHANGED convert_pc
  /\ UNCHANGED image_paths
  /\ UNCHANGED <<balancer_vars, binner_vars, filter_vars, download_vars, manifest_vars,
                 build_vars, temporal_vars, positivity_vars>>

\* dcm_to_png(image_path)
DcmToPng == \E i \in DOMAIN image_paths : ConvertImage(image_paths[i], png)

\* dcm_to_jpeg(image_path)
DcmToJpeg == \E i \in DOMAIN image_paths : ConvertImage(image_paths[i], jpg)

NextConvert ==
  \/ DcmToPng
  \/ DcmToJpeg

SpecConvert == InitConvert /\ [][NextConvert]_vars


\* --------------------------------------------- the positivity percentage
MaxSubjects == 5

\* The covid19_positive column of df: one value for each subject.
PositiveColumns == ListsUpTo({"Yes", "No", "Unknown"}, MaxSubjects)

\* len(df[df['covid19_positive'] == value]['covid19_positive'])
LenWhere(column, value) == Cardinality({ i \in DOMAIN column : column[i] = value })

\* round(num / den * 100, 1) for den > 0, in tenths of a percent: the
\* nearest tenth, the even one of two tenths that are equally near.
RoundPercent(num, den) ==
  LET q == (1000 * num) \div den
      r == (1000 * num) % den
  IN IF 2 * r < den THEN q
     ELSE IF 2 * r > den THEN q + 1
     ELSE IF q % 2 = 0 THEN q ELSE q + 1

InitPositivity ==
  /\ covid19_positive \in PositiveColumns
  /\ covid_breakdown = <<>>
  /\ positivity = 0
  /\ positivity_pc = "cell"
  /\ BalancerIdle /\ BinnerIdle /\ FilterIdle /\ DownloadIdle /\ ManifestIdle
  /\ BuildIdle /\ TemporalIdle /\ ConvertIdle

\* The cell: covid_breakdown holds the number of 'Yes' and the number of
\* 'No', in this order, and the percentage printed is the first value
\* divided by the second, times 100, rounded to one decimal.
PositivityCell ==
  /\ positivity_pc = "cell"
  /\ covid_breakdown' = << LenWhere(covid19_positive, "Yes"),
                           LenWhere(covid19_positive, "No") >>
  /\ IF covid_breakdown'[2] = 0
       THEN /\ positivity_pc' = "ZeroDivisionError"
            /\ UNCHANGED positivity
       ELSE /\ positivity' = RoundPercent(covid_breakdown'[1], covid_breakdown'[2])
            /\ positivity_pc' = "printed"
  /\ UNCHANGED covid19_positive
  /\ UNCHANGED <<balancer_vars, binner_vars, filter_vars, download_vars, manifest_vars,
                 build_vars, temporal_vars, convert_vars>>

NextPositivity == PositivityCell

SpecPositivity == InitPositivity /\ [][NextPositivity]_vars


\* ---------------------------------------------------------------- claims
\* The weight-assignment cell has been executed.
AfterWeights ==
  \/ pc \in {"check_weights", "sample", "assemble", "done"}
  \/ pc = "failed" /\ error.cell \in {"check_weights", "sample"}

\* The frequency cell has been executed.
AfterFrequencies == pc \in {"replace_nan", "apply_weights"} \/ AfterWeights

\* The sampling cell has been executed.
SampleActed == samples # <<>> \/ (pc = "failed" /\ error.cell = "sample")

CountLabel(frame, label) == Cardinality({ i \in DOMAIN frame : frame[i].cohort = label })
Occurrences(frame, r) == Cardinality({ i \in DOMAIN frame : frame[i] = r })
Least(a, b) == IF a <= b THEN a ELSE b
ReferenceCount(c) == Cardinality({ j \in DOMAIN sdf : Stratum(sdf[j]) = c })
PositiveRows == { i \in DOMAIN ldf : "weight" \in DOMAIN ldf[i] /\ RatPos(ldf[i].weight) }

\* C1: whenever the pipeline completes, the balanced table has exactly
\* 2 x size(smaller input group) rows, as many labelled 'mild' as 'severe'.
C1_BalancedCounts ==
  pc = "done" =>
    /\ Len(bdf) = 2 * Least(Len(mild_studies), Len(severe_studies))
    /\ CountLabel(bdf, "mild") = CountLabel(bdf, "severe")

\* C2: after the weight assignment every row of the larger group carries a
\* defined, finite, non-negative weight, whatever its age.  (Stated for a
\* non-empty smaller group.)
C2_DefinedWeights ==
  (AfterWeights /\ sdf # <<>>) =>
    \A i \in DOMAIN ldf :
      /\ "weight" \in DOMAIN ldf[i]
      /\ ~IsNaN(ldf[i].weight)
      /\ ~IsInf(ldf[i].weight)
      /\ ldf[i].weight[1] >= 0

\* C3: every row of the larger group has a weight >= 0, which is 0 exactly
\* when the row's stratum does not occur in the smaller group.  (Stated for
\* a non-empty smaller group and two groups of different names.)
C3_ZeroIffAbsent ==
  (AfterWeights /\ sdf # <<>> /\ smaller_cohort_name # larger_cohort_name) =>
    \A i \in DOMAIN ldf :
      /\ "weight" \in DOMAIN ldf[i]
      /\ ldf[i].weight[2] > 0 /\ ldf[i].weight[1] >= 0
      /\ (ldf[i].weight = Zero <=> ReferenceCount(Stratum(ldf[i])) = 0)

\* C4: a row of the larger group whose stratum occurs in the smaller group
\* is weighted total / count(stratum), total the number of rows of the
\* smaller group.  (Stated for the strata that have an age bin and for two
\* groups of different names.)
C4_WeightIsTotalOverCount ==
  (AfterWeights /\ smaller_cohort_name # larger_cohort_name) =>
    \A i \in DOMAIN ldf :
      (ReferenceCount(Stratum(ldf[i])) > 0 /\ ~HasNaN(Stratum(ldf[i]))) =>
        /\ "weight" \in DOMAIN ldf[i]
        /\ ldf[i].weight = Rat(Len(sdf), ReferenceCount(Stratum(ldf[i])))

\* C5: a sample size above the number of rows with a strictly positive
\* weight makes the sampling cell raise; no sample and no balanced table
\* are produced.
C5_TooFewPositiveWeightsRaises ==
  (SampleActed /\ smaller_cohort_size > Cardinality(PositiveRows)) =>
    /\ pc = "failed"
    /\ error = [cell |-> "sample", kind |-> "ValueError"]
    /\ udf = <<>> /\ bdf = <<>> /\ samples = <<>>

\* The sampling cell was asked for two rows where only one row has a positive weight.
C5_Witness ==
  /\ pc = "failed" /\ error.cell = "sample"
  /\ smaller_cohort_size = 2
  /\ Cardinality(PositiveRows) = 1

\* C6: a successful sample holds exactly n pairwise distinct rows of the
\* larger group, each with a strictly positive weight.
C6_SampleDistinctPositive ==
  pc \in {"assemble", "done"} =>
    /\ Len(udf) = smaller_cohort_size
    /\ \A j, k \in DOMAIN udf : j # k => udf[j].submitter_id # udf[k].submitter_id
    /\ \A j \in DOMAIN udf : udf[j] \in Range(ldf) /\ RatPos(udf[j].weight)

\* Two rows were sampled from a larger group that also holds a row of weight
\* zero and a row without a weight.
C6_Witness ==
  /\ pc = "assemble"
  /\ Len(udf) = 2
  /\ \E i \in DOMAIN ldf : ldf[i].weight = Zero
  /\ ldf[1].weight = Zero \/ IsNaN(ldf[1].weight)

C8_BalancedIsUnion ==
  pc = "done" =>
    /\ \A i \in DOMAIN bdf : bdf[i] \in Range(df) /\ "weight" \notin DOMAIN bdf[i]
    /\ \A r \in Range(df) :
         Occurrences(bdf, r) =
           Occurrences(sdf, r) + Cardinality({ j \in DOMAIN udf : udf[j].submitter_id = r.submitter_id })
    /\ \A j \in DOMAIN udf : udf[j].cohort = larger_cohort_name

\* A balanced table of two different groups, two rows of each.
C8_Witness ==
  /\ pc = "done"
  /\ smaller_cohort_name # larger_cohort_name
  /\ Len(udf) = 2 /\ Len(sdf) = 2

\* C9: for a non-empty smaller group the counts of svc sum to the number
\* of its rows.  (Stated for two groups of different names.)
C9_CountsSumToSize ==
  (AfterFrequencies /\ sdf # <<>> /\ smaller_cohort_name # larger_cohort_name) =>
    SeriesSum(svc) = Rat(Len(sdf), 1)

\* C10: a row that reaches the sampling cell with a NaN weight makes the
\* cell raise; sampling does not proceed.
C10_NaNWeightRaises ==
  (SampleActed /\ \E i \in DOMAIN ldf : IsNaN(ldf[i].weight)) =>
    /\ pc = "failed"
    /\ error.cell = "sample"
    /\ samples = <<>>

\* C11: when one of the two groups, hence the smaller one, has no record,
\* the run of the notebook ends in an exception: the sampling cell, if it is
\* reached, raises, the assembling cell is never reached and no balanced
\* table is produced.
C11_EmptyReferenceAborts ==
  (Len(mild_studies) = 0 \/ Len(severe_studies) = 0) =>
     /\ pc \notin {"assemble", "done"}
     /\ bdf = <<>>
     /\ SampleActed => pc = "failed"
     /\ pc = "sample" => DataFrameSample(ldf, smaller_cohort_size, Column(ldf, "weight")).raised

\* The larger group has rows, the smaller one none, and the sampling cell raised.
C11_Witness ==
  /\ pc = "failed" /\ error.cell = "sample"
  /\ smaller_cohort_size = 0 /\ sdf = <<>> /\ ldf # <<>>
  /\ HasColumn(ldf, "weight")
  /\ \A i \in DOMAIN ldf : ~RatPos(PreprocessWeights(Column(ldf, "weight"))[i])


\* The age-grouping function / the pd.cut cell has been executed.
AgeGroupActed == binner_pc \in {"age_group", "done"}
CutActed == binner_pc \in {"cut", "done"}

\* The edges between the labels of age_group.
group_edges == Arange(20, 100, 10)

\* The number of the bin of v among the bins the edges delimit, 0 for the
\* bucket below the first edge and Len(edges) for the one after the last:
\* with half-open bins [edge, next edge), and with right-closed bins
\* (edge, next edge].
HalfOpenIndex(v, edges) == Cardinality({ i \in DOMAIN edges : edges[i] <= v })
RightClosedIndex(v, edges) == Cardinality({ i \in DOMAIN edges : edges[i] < v })

\* The interval of pd.cut between the edges number i and i + 1.
BinBetween(bins, i) == <<bins[i], bins[i + 1]>>

GroupNumber(label) == CHOOSE n \in DOMAIN groups : groups[n] = label

\* C13: both binners are total and monotonic: every integer age gets exactly
\* one bin, and a larger age never gets an earlier bin.
C13_TotalAndMonotonic ==
  /\ AgeGroupActed =>
       /\ \A k \in DOMAIN agelist : grouplist[k] \in Range(groups)
       /\ \A j, k \in DOMAIN agelist :
            agelist[j] <= agelist[k] =>
              GroupNumber(grouplist[j]) <= GroupNumber(grouplist[k])
  /\ CutActed =>
       /\ \A k \in DOMAIN agelist : age_bin[k] # NaNBin
       /\ \A j, k \in DOMAIN agelist :
            agelist[j] <= agelist[k] => age_bin[j][1] <= age_bin[k][1]


\* What the standard output alone says of a call: failure if it contains
\* 'failed', otherwise success if it contains 'successfully', otherwise other.
ByStdout(output) ==
  IF "failed" \in output THEN "failure"
  ELSE IF "successfully" \in output THEN "success"
  ELSE "other"

\* The object_ids of the calls that returned with an output of the given
\* kind, in the order of the calls.
IdsByStdout(kind) ==
  LET Test(call) == ByStdout(call.stout.stdout) = kind
      kept == SelectSeq(calls, Test)
  IN [k \in DOMAIN kept |-> kept[k].object_id]

\* C14: the list an object_id is appended to is decided by the standard
\* output of its command alone; the exit code and the error output of the
\* command have no influence.
C14_OutcomeByStdoutOnly ==
  download_pc \in {"for", "run", "done"} =>
     /\ failure = IdsByStdout("failure")
     /\ success = IdsByStdout("success")
     /\ other = IdsByStdout("other")

\* A command that ended with exit code 1 and 'failed' on its error output,
\* but 'successfully' on its standard output, was counted as a success.
C14_Witness ==
  /\ \E k \in DOMAIN calls :
       /\ calls[k].stout.returncode = 1
       /\ "failed" \in calls[k].stout.stderr
       /\ calls[k].stout.stdout = {"successfully"}
       /\ calls[k].object_id \in Range(success)
  /\ failure = <<>>

\* The object_ids of the commands issued so far, in the order issued.
Issued ==
  [k \in 1..(Len(calls) + Len(running)) |->
     IF k <= Len(calls) THEN calls[k].object_id ELSE running[1].object_id]

\* C15: the commands are issued one at a time in the order of the list,
\* once per entry: the commands issued are always a prefix of the list (no
\* entry is retried, skipped or reordered, whatever the earlier outcomes),
\* at most one command is in flight, the command of entry i + 1 is issued
\* only when i calls have returned, and the loop ends with one command
\* issued per entry.
C15_SequentialOncePerEntry ==
  /\ Len(Issued) <= Len(object_ids)
  /\ Issued = SubSeq(object_ids, 1, Len(Issued))
  /\ Len(running) <= 1
  /\ running # <<>> => download_pc = "run" /\ iterator = Len(calls) + 1
  /\ running = <<>> => iterator = Len(calls)
  /\ download_pc = "done" => Len(calls) = Len(object_ids)

\* The loop ended after a first command that failed and a second command
\* for a different entry.
C15_Witness ==
  /\ download_pc = "done"
  /\ Len(calls) >= 2
  /\ "failed" \in calls[1].stout.stdout
  /\ calls[1].object_id # calls[2].object_id
  /\ failure # <<>>

\* The call in flight never returns.
Hung == running # <<>> /\ ~running[1].returns

\* C16: the loop terminates exactly when every call of subprocess.run
\* returns: unless a call hangs the loop finishes, and it finishes after
\* len(object_ids) iterations; once a call hangs no later entry is attempted
\* and the loop never finishes.
C16_TerminatesIffCallsReturn ==
  /\ <>(download_pc = "done" \/ Hung)
  /\ [](download_pc = "done" =>
          /\ count = Len(object_ids)
          /\ Len(calls) = Len(object_ids))
  /\ [][Hung => (Hung' /\ UNCHANGED download_vars)]_vars
  /\ [](Hung => download_pc # "done")

\* A call hangs while entries of the list are still to come.
C16_Witness ==
  /\ Hung
  /\ iterator < Len(object_ids)
  /\ download_pc = "run"


\* The tokens of the JSON array that holds one object {"object_id": guid}
\* per entry of the list, in order: [ ], or [ {..} , {..} , ... ].
RECURSIVE JsonObjects(_)
JsonObjects(list) ==
  IF list = <<>> THEN <<>>
  ELSE <<"{", Member(Head(list)), "}">> \o
       (IF Tail(list) = <<>> THEN <<>> ELSE <<",">> \o JsonObjects(Tail(list)))
JsonArray(list) == <<"[">> \o JsonObjects(list) \o <<"]">>

\* C17: for a list of any length, zero included, write_manifest leaves a
\* well-formed JSON array with exactly one object {"object_id": guid} per
\* entry, in the order of the list, every object and the array closed.
C17_WellFormedManifest ==
  manifest_pc = "returned" => mani = JsonArray(guids)


\* C18 as stated: every stage leaves the tables it receives unchanged: once
\* the master table is built and binned it is never modified, and once the
\* two groups are selected neither the smaller-group nor the larger-group
\* table is modified, by weight assignment and sampling in particular.
C18_StagesArePure ==
  [][ /\ pc \notin {"label", "convert"} => df' = df
      /\ pc # "select" => (sdf' = sdf /\ ldf' = ldf) ]_vars

\* C18 amended: the frequency-table, sampling and assembly stages leave the
\* tables they receive unchanged, and the smaller group and the binned
\* master table are never modified; weight assignment writes the weight
\* column into the larger-group table it is given, leaving its rows, their
\* order and their other columns as they were.
C18_OnlyWeightsWrittenInPlace ==
  [][ /\ pc \notin {"label", "convert"} => df' = df
      /\ pc # "select" => sdf' = sdf
      /\ pc \notin {"select", "apply_weights"} => ldf' = ldf
      /\ pc = "apply_weights" =>
           /\ Len(ldf') = Len(ldf)
           /\ combos # {} => (ldf' # ldf /\ DropWeight(ldf') = ldf)
           /\ combos = {} => ldf' = ldf
      /\ UNCHANGED <<mild_studies, severe_studies>> ]_vars

\* The pipeline completed: the larger-group table carries the weight column
\* that the rows of the master table lack, with a row no combination
\* selected, and a sample was drawn from it.
C18_Witness ==
  /\ pc = "done"
  /\ HasColumn(ldf, "weight") /\ ~HasColumn(df, "weight")
  /\ \E i \in DOMAIN ldf : IsNaN(ldf[i].weight)
  /\ udf # <<>> /\ bdf # <<>>


\* The filter cell has been executed.
FilterActed == filter_pc \in {"done", "failed"}

\* A Chest study, and a study one of whose modalities is CT, CR or DX.
IsChest(j) == "loinc_system" \in DOMAIN j /\ j.loinc_system = <<"Chest">>
HasWantedModality(j) ==
  /\ "study_modality" \in DOMAIN j
  /\ \E k \in DOMAIN j.study_modality : j.study_modality[k] \in {"CT", "CR", "DX"}

\* C20: after the filter cell desired_studies has one entry per returned
\* case, and the studies kept for a case are exactly its Chest studies with
\* modality CT, CR or DX, in their order: nothing of another body part, of
\* another modality or without loinc_system is kept, and every Chest study
\* with one of the three modalities is kept.
C20_KeptStudiesAreChestCtCrDx ==
  FilterActed =>
     /\ DOMAIN desired_studies = { cases[c].submitter_id : c \in DOMAIN cases }
     /\ \A c \in DOMAIN cases :
          LET Wanted(j) == IsChest(j) /\ HasWantedModality(j)
          IN desired_studies[cases[c].submitter_id] =
               SelectSeq(cases[c].imaging_studies, Wanted)


\* The cohort-selection cell has been executed.
AfterSelect ==
  pc \in {"combos", "frequencies"} \/ AfterFrequencies
    \/ (pc = "failed" /\ error.cell \notin {"label", "convert", "sizes", "select"})

\* The strata of the rows of the smaller group.
ReferenceStrata == { Stratum(sdf[j]) : j \in DOMAIN sdf }

\* C25: the weights are the inverse of the reference frequencies: every
\* stratum that occurs in the smaller group gets a weight, the weight is at
\* least 1, and of two such strata the one with the strictly lower count in
\* the smaller group gets the strictly higher weight.
C25_WeightsInverseOfFrequencies ==
  (AfterFrequencies /\ smaller_cohort_name # larger_cohort_name) =>
    \A c \in ReferenceStrata :
      /\ c \in DOMAIN svw
      /\ ~IsNaN(svw[c]) /\ ~RatLess(svw[c], Rat(1, 1))
      /\ \A d \in ReferenceStrata :
           (d \in DOMAIN svw /\ ReferenceCount(c) < ReferenceCount(d)) =>
             RatLess(svw[d], svw[c])

\* C27: the two groups chosen for balancing are different groups: the name
\* of the smaller and the name of the larger cohort differ, also when the
\* two cohorts have the same size, and no record is in both tables.
C27_GroupsDiffer ==
  AfterSelect =>
    /\ smaller_cohort_name # larger_cohort_name
    /\ \A i \in DOMAIN sdf : \A j \in DOMAIN ldf :
         sdf[i].submitter_id # ldf[j].submitter_id


\* total = len(object_ids), assigned once before the loop.
total == Len(object_ids)

\* How often an id occurs in a list.
CountIn(list, id) == Cardinality({ k \in DOMAIN list : list[k] = id })

\* C28: after every iteration of the download loop count is the number of
\* object_ids in the three lists together, the lists hold exactly the first
\* count entries of object_ids, each entry in one list only; when the loop
\* has ended count equals total, the length of object_ids.
C28_CountInvariant ==
  download_pc \in {"for", "done"} =>
    /\ count = Len(success) + Len(failure) + Len(other)
    /\ count <= total
    /\ \A id \in ObjectIds :
         CountIn(success, id) + CountIn(failure, id) + CountIn(other, id)
           = CountIn(SubSeq(object_ids, 1, count), id)
    /\ download_pc = "done" => count = total

\* The loop ended over a list that names one object twice: the first
\* download failed, the second succeeded.
C28_Witness ==
  /\ download_pc = "done"
  /\ count = 2 /\ object_ids[1] = object_ids[2]
  /\ failure = << object_ids[1] >> /\ success = << object_ids[2] >>
  /\ other = <<>>


\* The object_ids of the records that have one, in the order of the records.
RECURSIVE IdsOf(_)
IdsOf(records) ==
  IF records = <<>> THEN <<>>
  ELSE (IF "object_id" \in DOMAIN Head(records)
        THEN << Head(records).object_id >> ELSE <<>>) \o IdsOf(Tail(records))

\* C24: in every notebook that builds it, object_ids holds, in query order,
\* exactly the object_id of every returned record that has the field, and a
\* record without the field is skipped without an error.
C24_ObjectIdsOfRecords ==
  build_pc # "query" =>
    /\ build_pc # "KeyError"
    /\ object_ids = IdsOf(data_files)


\* The rows of temp made of study i of s and test j of m.
RowsOfPair(i, j) ==
  { k \in DOMAIN temp : temp[k].study_uid = s_df[i].study_uid
                        /\ temp[k].submitter_id = m_df[j].submitter_id }

\* C22: once the difference is calculated, every merged row has
\* days_from_study_to_test = test_days_from_index - days_to_study, and temp
\* has exactly one row for each pair of a study and a test with the same
\* case_ids, carrying the days of that study and of that test, and no row
\* for any other pair.
C22_DaysFromStudyToTest ==
  temporal_pc \in {"select", "done"} =>
    /\ \A k \in DOMAIN temp :
         temp[k].days_from_study_to_test
           = temp[k].test_days_from_index - temp[k].days_to_study
    /\ \A i \in DOMAIN s_df : \A j \in DOMAIN m_df :
         /\ Cardinality(RowsOfPair(i, j))
              = IF s_df[i].case_ids = m_df[j].case_ids THEN 1 ELSE 0
         /\ \A k \in RowsOfPair(i, j) :
              /\ temp[k].days_to_study = s_df[i].days_to_study
              /\ temp[k].test_days_from_index = m_df[j].test_days_from_index
              /\ temp[k].case_ids = s_df[i].case_ids
    /\ \A k \in DOMAIN temp :
         \E i \in DOMAIN s_df : \E j \in DOMAIN m_df : k \in RowsOfPair(i, j)

\* A test on day 1 with a study on day 4 gives -3, and a test on day 4 with
\* a study on day 1 gives 3, in the same table.
C22_Witness ==
  /\ temporal_pc = "select"
  /\ \E k \in DOMAIN temp :
       /\ temp[k].test_days_from_index = 1 /\ temp[k].days_to_study = 4
       /\ temp[k].days_from_study_to_test = -3
  /\ \E k \in DOMAIN temp :
       /\ temp[k].test_days_from_index = 4 /\ temp[k].days_to_study = 1
       /\ temp[k].days_from_study_to_test = 3

\* The condition of the text: a positive test and a difference in the range
\* of -7 to 0, both ends included.
InRangeAndPositive(row) ==
  /\ row.days_from_study_to_test >= -7
  /\ row.days_from_study_to_test <= 0
  /\ row.test_result_text = "Positive"

\* C21: the rows selected as COVID-positive are exactly the rows of temp
\* with test_result_text 'Positive' and days_from_study_to_test in the range
\* of -7 to 0, both ends included.
C21_SelectedIffPositiveInRange ==
  temporal_pc = "done" => ps = SelectSeq(temp, InRangeAndPositive)


\* The folder of a path, the working directory being written <<>>.
FolderOf(path) ==
  LET folder == IF LastSlash(path) = 0 THEN <<>>
                ELSE SubSeq(path, 1, LastSlash(path) - 1)
  IN IF folder = <<".">> THEN <<>> ELSE folder

FileNameOf(path) == SubSeq(path, LastSlash(path) + 1, Len(path))

\* A file name with its extension, the part after its last '.', replaced.
WithExtension(name, extension) ==
  LET dot == Max({0} \cup { k \in DOMAIN name : name[k] = "." })
  IN (IF dot = 0 THEN name ELSE SubSeq(name, 1, dot - 1)) \o <<".">> \o extension

\* Every file written lies in the folder of the DICOM file it comes from,
\* under the name of that file with the extension replaced by png or jpg.
SavedNextToOriginal ==
  \A p \in DOMAIN saved' :
    /\ FolderOf(p) = FolderOf(saved'[p])
    /\ FileNameOf(p) \in { WithExtension(FileNameOf(saved'[p]), png),
                           WithExtension(FileNameOf(saved'[p]), jpg) }

\* No conversion writes to the path that the conversion of a DICOM file of
\* another folder wrote to.
NoOverwriteAcrossFolders ==
  \A p \in DOMAIN saved : FolderOf(saved'[p]) = FolderOf(saved[p])

\* C23: dcm_to_png and dcm_to_jpeg place the converted image in the folder
\* of the original DICOM file, under the original file name with the
\* extension replaced by png or jpg, and converting DICOM files of different
\* folders never writes to the same output path.
C23_SavedInOriginalFolder ==
  [][SavedNextToOriginal /\ NoOverwriteAcrossFolders]_vars


\* C26: the printed 'Positivity percentage' is the number of positive
\* subjects divided by the number of positive and negative subjects
\* together, times 100, rounded to one decimal.
C26_ShareOfPositives ==
  positivity_pc = "printed" =>
    positivity = RoundPercent(LenWhere(covid19_positive, "Yes"),
                              LenWhere(covid19_positive, "Yes")
                                + LenWhere(covid19_positive, "No"))


====
